---- MODULE Spec2Model ----
(***************************************************************************)
(* Model of main.go: an HTTP server with a panic-recovery middleware and a *)
(* signal-triggered graceful shutdown.                                     *)
(*                                                                         *)
(* Two execution paths run concurrently: the serving goroutine (main.go    *)
(* 66-71) with the per-request handler invocations it spawns, and the main *)
(* path (main.go 73-98).  Time is a discrete clock `now` counted in the    *)
(* unit of the two durations of the program (seconds): time.Sleep in       *)
(* cleanup and the timeout of the shutdown context.  A step of the main    *)
(* path that is runnable is taken before the clock advances.               *)
(***************************************************************************)
EXTENDS Integers, Sequences, FiniteSets, TLC

\* ---------------------------------------------------------------- bounds
MaxTime     == 3   \* the clock runs freely up to here (pending timers still run out)
MaxRequests == 2   \* connections accepted during one run
MaxSignals  == 2   \* signals delivered to the process during one run
MaxOps      == 3   \* operations of a handler body given to the middleware alone
MaxOverrun  == 4   \* the longest the sleep of cleanup() lasts beyond its duration

\* ------------------------------------------------------ program constants
CleanupDuration == 2    \* time.Sleep(2 * time.Second)
ShutdownTimeout == 5    \* context.WithTimeout(..., 5*time.Second)
StatusOK == 200
StatusInternalServerError == 500

VARIABLES
    now,        \* the clock
    proc,       \* "running", "exit0" (main returned) or "exit1" (logger.Fatalf)
    mainPC,     \* position of the main path
    srvPC,      \* position of the serving goroutine
    stop,       \* the buffered channel `stop` (capacity 1)
    nsig,       \* history: number of signals the OS has delivered
    termSeen,   \* history: a SIGINT or a SIGTERM has been delivered
    writes,     \* history: number of sends into `stop`
    reads,      \* history: number of receives from `stop`
    ctx,        \* the shutdown context: [created, deadline]
    wake,       \* the time at which the time.Sleep of cleanup ends
    inShutdown, \* server.Shutdown has been called (listeners closed)
    shutdownErr,\* what server.Shutdown returned: "pending", "nil", "deadline"
    conns,      \* per accepted connection: path, state, handler calls, responses
    nconns,     \* number of connections accepted so far
    log,        \* the lines written through `logger`, in order
    recvAt,     \* history: the clock when main received from `stop`
    mwNext,     \* the handler body given to recoveryMiddleware on its own
    mwOut       \* what the handler it returned did: <<>> before the call

hist == <<nsig, termSeen, writes, reads>>

mw == <<mwNext, mwOut>>

vars == <<now, proc, mainPC, srvPC, stop, hist, ctx, wake, inShutdown,
          shutdownErr, conns, nconns, log, recvAt, mw>>

\* ------------------------------------------------------------ the handlers
\* A handler body is the sequence of the operations it performs on its
\* http.ResponseWriter; a panic ends it.
OpWrite(s)       == [op |-> "Write", s |-> s, code |-> 0]
OpWriteHeader(c) == [op |-> "WriteHeader", s |-> "", code |-> c]
OpFprintln(s)    == [op |-> "Fprintln", s |-> s, code |-> 0]
OpPanic(v)       == [op |-> "panic", s |-> v, code |-> 0]

\* A fresh http.ResponseWriter: no header written yet (status 0), empty body.
NewResponseWriter == [status |-> 0, body |-> <<>>]

\* ResponseWriter.WriteHeader: only the first call sets the status.
WriteHeader(w, c) == IF w.status = 0 THEN [w EXCEPT !.status = c] ELSE w

\* ResponseWriter.Write: writes the header with 200 if none was written yet.
Write(w, s) ==
    LET h == WriteHeader(w, StatusOK)
    IN  [h EXCEPT !.body = Append(h.body, s)]

\* fmt.Fprintln(w, s): one Write of s followed by a newline.
Fprintln(w, s) == Write(w, s \o "\n")

\* http.Error(w, msg, code): WriteHeader(code), then Fprintln(w, msg).
httpError(w, msg, code) == Fprintln(WriteHeader(w, code), msg)

\* Running a handler body on w: the writer it leaves behind and whether it
\* panicked (with which value).
RECURSIVE ServeHTTP(_, _)
ServeHTTP(h, w) ==
    IF h = <<>> THEN [w |-> w, panicked |-> FALSE, value |-> ""]
    ELSE LET o == Head(h) IN
         CASE o.op = "panic"       -> [w |-> w, panicked |-> TRUE, value |-> o.s]
           [] o.op = "Write"       -> ServeHTTP(Tail(h), Write(w, o.s))
           [] o.op = "Fprintln"    -> ServeHTTP(Tail(h), Fprintln(w, o.s))
           [] o.op = "WriteHeader" -> ServeHTTP(Tail(h), WriteHeader(w, o.code))

\* mux.HandleFunc("/", ...): fmt.Fprintln(w, "Hello, World!")
helloHandler == << OpFprintln("Hello, World!") >>

\* mux.HandleFunc("/panic", ...): panic("Something went wrong!")
panicHandler == << OpPanic("Something went wrong!") >>

\* The request paths the model issues.
Paths == {"/", "/panic"}

\* The ServeMux: "/panic" matches only itself, "/" matches every other path.
mux(path) == IF path = "/panic" THEN panicHandler ELSE helloHandler

\* A line of the logger.  `stack` tells that a goroutine dump follows the
\* message, `fatal` that the line was written by logger.Fatalf.
LogLine(msg)        == [msg |-> msg, val |-> "", stack |-> FALSE, fatal |-> FALSE]
FatalLine(msg, v)   == [msg |-> msg, val |-> v,  stack |-> FALSE, fatal |-> TRUE]
PanicLine(msg, v)   == [msg |-> msg, val |-> v,  stack |-> TRUE,  fatal |-> FALSE]

\* recoveryMiddleware(next) with the deferred recover removed: a plausible
\* slip, the panic of next reaches the caller.
recoveryMiddlewareNoRecover(next, w) ==
    LET r == ServeHTTP(next, w)
    IN  [w |-> r.w, panicked |-> r.panicked, value |-> r.value,
         lines |-> <<>>, calls |-> 1]

\* recoveryMiddleware(next) answering 500 whether or not next panicked.
recoveryMiddlewareAlways500(next, w) ==
    LET r == ServeHTTP(next, w)
    IN  [w |-> httpError(r.w, "Internal Server Error", StatusInternalServerError),
         panicked |-> FALSE, value |-> "",
         lines |-> IF r.panicked
                   THEN << PanicLine("PANIC RECOVERED", r.value) >> ELSE <<>>,
         calls |-> 1]

\* recoveryMiddleware(next) calling next a second time after a panic.
recoveryMiddlewareRetry(next, w) ==
    LET r == ServeHTTP(next, w)
        q == ServeHTTP(next, r.w)
    IN  IF r.panicked
        THEN [w |-> httpError(q.w, "Internal Server Error", StatusInternalServerError),
              panicked |-> FALSE, value |-> "",
              lines |-> << PanicLine("PANIC RECOVERED", r.value) >>, calls |-> 2]
        ELSE [w |-> r.w, panicked |-> FALSE, value |-> "", lines |-> <<>>, calls |-> 1]

\* The handler recoveryMiddleware(next) run on w: next.ServeHTTP(w, r) under
\* a deferred recover that logs the value with a goroutine dump and answers
\* with http.Error(w, "Internal Server Error", 500).  The result tells what
\* the caller sees: the writer, whether a panic reaches it, the lines logged
\* and how often next was called.
recoveryMiddleware(next, w) ==
    LET r == ServeHTTP(next, w)
    IN  IF r.panicked
        THEN [w |-> httpError(r.w, "Internal Server Error", StatusInternalServerError),
              panicked |-> FALSE, value |-> "",
              lines |-> << PanicLine("PANIC RECOVERED", r.value) >>, calls |-> 1]
        ELSE [w |-> r.w, panicked |-> FALSE, value |-> "", lines |-> <<>>, calls |-> 1]

\* server.Handler = recoveryMiddleware(mux)
handler(path, w) == recoveryMiddleware(mux(path), w)

\* What the client gets once the handler is back: the written response; the
\* server writes an empty 200 when the handler wrote nothing; when a panic
\* reaches the server it closes the connection, so the client gets only what
\* was written before.
Delivered(r) ==
    IF r.panicked
    THEN (IF r.w.status = 0 THEN <<>> ELSE << r.w >>)
    ELSE << WriteHeader(r.w, StatusOK) >>

\* ------------------------------------------------------------------ state
Signals == {"SIGINT", "SIGTERM", "SIGUSR1"}

\* signal.Notify(stop) without a list: every signal is relayed.
NotifiedAll == {"SIGINT", "SIGTERM", "SIGUSR1"}

\* signal.Notify(stop, syscall.SIGINT, syscall.SIGTERM)
Notified == {"SIGINT", "SIGTERM"}

\* A connection: the path requested, its state ("none", "active", "done",
\* "abandoned"), how often the routed handler ran, what the client received,
\* whether a panic reached the server; history: it was active when main
\* received from `stop`, it was served with the deadline already expired.
NoConn == [path |-> "", st |-> "none", calls |-> 0, resps |-> <<>>,
           escaped |-> FALSE, atStop |-> FALSE, late |-> FALSE]

\* The state once main has built the server, made the channel, registered the
\* signals and started the serving goroutine (main.go 42-71), which has not
\* run yet.
InitServer ==
    /\ now = 0
    /\ proc = "running"
    /\ mainPC = "wait"
    /\ srvPC = "spawned"
    /\ stop = <<>>
    /\ nsig = 0
    /\ termSeen = FALSE
    /\ writes = 0
    /\ reads = 0
    /\ ctx = [created |-> FALSE, deadline |-> 0]
    /\ wake = 0
    /\ inShutdown = FALSE
    /\ shutdownErr = "pending"
    /\ conns = [i \in 1..MaxRequests |-> NoConn]
    /\ nconns = 0
    /\ log = <<>>
    /\ recvAt = 0

Init ==
    /\ InitServer
    /\ mwNext = <<>>
    /\ mwOut = <<>>

Active == {i \in 1..MaxRequests : conns[i].st = "active"}

\* The process ends: every connection still active is cut.
Abandon(cs) ==
    [i \in 1..MaxRequests |->
        IF cs[i].st = "active" THEN [cs[i] EXCEPT !.st = "abandoned"] ELSE cs[i]]

\* logger.Fatalf(line): the line is written and the process exits with 1 at
\* once; no deferred function runs.
Fatalf(line) ==
    /\ log' = Append(log, line)
    /\ proc' = "exit1"
    /\ conns' = Abandon(conns)

\* main returns: the process exits with 0.
MainReturns ==
    /\ proc' = "exit0"
    /\ conns' = Abandon(conns)

\* The delivery of a signal with signal.Reset called after the receipt: a
\* SIGINT or SIGTERM delivered then ends the process as by default.
DeliverAfterReset(sig) ==
    /\ proc = "running"
    /\ nsig < MaxSignals
    /\ nsig' = nsig + 1
    /\ termSeen' = (termSeen \/ sig \in {"SIGINT", "SIGTERM"})
    /\ IF sig \in Notified /\ mainPC # "wait"
       THEN /\ proc' = "exit2"
            /\ conns' = Abandon(conns)
            /\ UNCHANGED <<stop, writes>>
       ELSE /\ IF sig \in Notified /\ Len(stop) < 1
               THEN stop' = Append(stop, sig) /\ writes' = writes + 1
               ELSE UNCHANGED <<stop, writes>>
            /\ UNCHANGED <<proc, conns>>
    /\ UNCHANGED <<mw, recvAt, now, mainPC, srvPC, reads, ctx, wake, inShutdown,
                   shutdownErr, nconns, log>>

\* The delivery of a signal with stop made by make(chan os.Signal, 2).
DeliverQueued(sig) ==
    /\ proc = "running"
    /\ nsig < MaxSignals
    /\ nsig' = nsig + 1
    /\ termSeen' = (termSeen \/ sig \in {"SIGINT", "SIGTERM"})
    /\ IF sig \in Notified /\ Len(stop) < 2
       THEN stop' = Append(stop, sig) /\ writes' = writes + 1
       ELSE UNCHANGED <<stop, writes>>
    /\ UNCHANGED <<mw, recvAt, now, proc, mainPC, srvPC, reads, ctx, wake, inShutdown,
                   shutdownErr, conns, nconns, log>>

\* ------------------------------------------------------------ environment
\* The OS delivers a signal.  A notified signal is sent to `stop` without
\* blocking: it is dropped when the buffer is full.  SIGUSR1 is not
\* registered and has no effect on a Go program.
Deliver(sig) ==
    /\ proc = "running"
    /\ nsig < MaxSignals
    /\ nsig' = nsig + 1
    /\ termSeen' = (termSeen \/ sig \in {"SIGINT", "SIGTERM"})
    /\ IF sig \in Notified /\ Len(stop) < 1
       THEN stop' = Append(stop, sig) /\ writes' = writes + 1
       ELSE UNCHANGED <<stop, writes>>
    /\ UNCHANGED <<mw, recvAt, now, proc, mainPC, srvPC, reads, ctx, wake, inShutdown,
                   shutdownErr, conns, nconns, log>>

\* ------------------------------------------------------ serving goroutine
\* logger.Println("Server started on :8080")
ServerStarted ==
    /\ proc = "running"
    /\ srvPC = "spawned"
    /\ log' = Append(log, LogLine("Server started on :8080"))
    /\ srvPC' = "listen"
    /\ UNCHANGED <<mw, recvAt, now, proc, mainPC, stop, hist, ctx, wake, inShutdown,
                   shutdownErr, conns, nconns>>

\* The goroutine taking every error of ListenAndServe for a failure, the one
\* returned after Shutdown included.
ListenClosedFatal ==
    /\ proc = "running"
    /\ srvPC = "listen"
    /\ IF inShutdown
       THEN /\ Fatalf(FatalLine("Server error", "listen"))
            /\ srvPC' = "closed"
       ELSE /\ srvPC' = "bind"
            /\ UNCHANGED <<proc, conns, log>>
    /\ UNCHANGED <<mw, recvAt, now, mainPC, stop, hist, ctx, wake, inShutdown,
                   shutdownErr, nconns>>

\* server.ListenAndServe() is entered: after Shutdown it returns
\* http.ErrServerClosed at once, which is not fatal: the goroutine ends.
\* Otherwise it goes on to bind the address.
Listen ==
    /\ proc = "running"
    /\ srvPC = "listen"
    /\ srvPC' = IF inShutdown THEN "closed" ELSE "bind"
    /\ UNCHANGED <<mw, recvAt, now, proc, mainPC, stop, hist, ctx, wake, inShutdown,
                   shutdownErr, conns, nconns, log>>

\* The address is bound and Serve starts accepting; when Shutdown was called
\* in between, Serve returns http.ErrServerClosed and the goroutine ends.
Bind ==
    /\ proc = "running"
    /\ srvPC = "bind"
    /\ srvPC' = IF inShutdown THEN "closed" ELSE "serving"
    /\ UNCHANGED <<mw, recvAt, now, proc, mainPC, stop, hist, ctx, wake, inShutdown,
                   shutdownErr, conns, nconns, log>>

\* server.ListenAndServe() fails to bind (the address is in use): the error
\* is not ErrServerClosed and logger.Fatalf ends the process.
ServeError ==
    /\ proc = "running"
    /\ srvPC = "bind"
    /\ Fatalf(FatalLine("Server error", "listen"))
    /\ srvPC' = "closed"
    /\ UNCHANGED <<mw, recvAt, now, mainPC, stop, hist, ctx, wake, inShutdown,
                   shutdownErr, nconns>>

\* The goroutine without the comparison with http.ErrServerClosed: the return
\* of ListenAndServe after Shutdown is taken for a failure.
ServeClosedFatal ==
    /\ proc = "running"
    /\ srvPC = "serving"
    /\ inShutdown
    /\ Fatalf(FatalLine("Server error", "listen"))
    /\ srvPC' = "closed"
    /\ UNCHANGED <<mw, recvAt, now, mainPC, stop, hist, ctx, wake, inShutdown,
                   shutdownErr, nconns>>

\* ListenAndServe returns http.ErrServerClosed because Shutdown closed the
\* listener: the goroutine ends without a log line.
ServeClosed ==
    /\ proc = "running"
    /\ srvPC = "serving"
    /\ inShutdown
    /\ srvPC' = "closed"
    /\ UNCHANGED <<mw, recvAt, now, proc, mainPC, stop, hist, ctx, wake, inShutdown,
                   shutdownErr, conns, nconns, log>>

\* A server that stops accepting as soon as main has received the signal.
AcceptUntilSignal(path) ==
    /\ proc = "running"
    /\ srvPC = "serving"
    /\ ~inShutdown
    /\ mainPC = "wait"
    /\ nconns < MaxRequests
    /\ nconns' = nconns + 1
    /\ conns' = [conns EXCEPT ![nconns + 1] = [NoConn EXCEPT !.path = path, !.st = "active"]]
    /\ UNCHANGED <<mw, recvAt, now, proc, mainPC, srvPC, stop, hist, ctx, wake,
                   inShutdown, shutdownErr, log>>

\* The server accepts a connection carrying a request for `path`.
Accept(path) ==
    /\ proc = "running"
    /\ srvPC = "serving"
    /\ ~inShutdown
    /\ nconns < MaxRequests
    /\ nconns' = nconns + 1
    /\ conns' = [conns EXCEPT ![nconns + 1] = [NoConn EXCEPT !.path = path, !.st = "active"]]
    /\ UNCHANGED <<mw, recvAt, now, proc, mainPC, srvPC, stop, hist, ctx, wake,
                   inShutdown, shutdownErr, log>>

\* The request of connection i has been read: server.Handler runs on a fresh
\* ResponseWriter, the response goes out and the connection becomes idle.
Serve(i) ==
    /\ proc = "running"
    /\ conns[i].st = "active"
    /\ LET r == handler(conns[i].path, NewResponseWriter)
       IN  /\ conns' = [conns EXCEPT ![i] = [@ EXCEPT !.st = "done",
                                               !.calls = @ + r.calls,
                                               !.resps = @ \o Delivered(r),
                                               !.escaped = r.panicked,
                                               !.late = ctx.created /\ now >= ctx.deadline]]
           /\ log' = log \o r.lines
    /\ UNCHANGED <<mw, recvAt, now, proc, mainPC, srvPC, stop, hist, ctx, wake,
                   inShutdown, shutdownErr, nconns>>

\* -------------------------------------------------------------- main path
\* The same with a context whose timeout is one unit too long.
WaitStopLongTimeout ==
    /\ proc = "running"
    /\ mainPC = "wait"
    /\ stop # <<>>
    /\ stop' = Tail(stop)
    /\ reads' = reads + 1
    /\ UNCHANGED <<nsig, termSeen, writes>>
    /\ ctx' = [created |-> TRUE, deadline |-> now + ShutdownTimeout + 1]
    /\ log' = log \o << LogLine("Shutdown signal received. Cleaning up..."),
                        LogLine("Cleaning up resources (DB, caches, etc.)...") >>
    /\ wake' = now + CleanupDuration
    /\ mainPC' = "cleanup"
    /\ recvAt' = now
    /\ conns' = [i \in 1..MaxRequests |->
                    [conns[i] EXCEPT !.atStop = (conns[i].st = "active")]]
    /\ UNCHANGED <<mw, now, proc, srvPC, inShutdown, shutdownErr, nconns>>

\* <-stop returns; the receipt is logged, the context with the 5 s timeout is
\* created, the two deferred functions are registered and cleanup() is
\* entered: it logs its first line and goes to sleep.
WaitStop ==
    /\ proc = "running"
    /\ mainPC = "wait"
    /\ stop # <<>>
    /\ stop' = Tail(stop)
    /\ reads' = reads + 1
    /\ UNCHANGED <<nsig, termSeen, writes>>
    /\ ctx' = [created |-> TRUE, deadline |-> now + ShutdownTimeout]
    /\ log' = log \o << LogLine("Shutdown signal received. Cleaning up..."),
                        LogLine("Cleaning up resources (DB, caches, etc.)...") >>
    /\ wake' = now + CleanupDuration
    /\ mainPC' = "cleanup"
    /\ recvAt' = now
    /\ conns' = [i \in 1..MaxRequests |->
                    [conns[i] EXCEPT !.atStop = (conns[i].st = "active")]]
    /\ UNCHANGED <<mw, now, proc, srvPC, inShutdown, shutdownErr, nconns>>

\* cleanup() without its time.Sleep.
cleanupNoSleep ==
    /\ proc = "running"
    /\ mainPC = "cleanup"
    /\ log' = Append(log, LogLine("Cleanup complete. Server shutting down."))
    /\ mainPC' = "shutdown"
    /\ UNCHANGED <<mw, recvAt, now, proc, srvPC, stop, hist, ctx, wake, inShutdown,
                   shutdownErr, conns, nconns>>

\* cleanup() without its second log line.
cleanupSilent ==
    /\ proc = "running"
    /\ mainPC = "cleanup"
    /\ now >= wake
    /\ mainPC' = "shutdown"
    /\ UNCHANGED <<mw, recvAt, now, proc, srvPC, stop, hist, ctx, wake, inShutdown,
                   shutdownErr, conns, nconns, log>>

\* The context with the timeout created when cleanup() returns instead of
\* before it is called.
cleanupThenContext ==
    /\ proc = "running"
    /\ mainPC = "cleanup"
    /\ now >= wake
    /\ log' = Append(log, LogLine("Cleanup complete. Server shutting down."))
    /\ ctx' = [created |-> TRUE, deadline |-> now + ShutdownTimeout]
    /\ mainPC' = "shutdown"
    /\ UNCHANGED <<mw, recvAt, now, proc, srvPC, stop, hist, wake, inShutdown,
                   shutdownErr, conns, nconns>>

\* The sleep of cleanup() is over: it logs its second line and returns.
cleanup ==
    /\ proc = "running"
    /\ mainPC = "cleanup"
    /\ now >= wake
    /\ log' = Append(log, LogLine("Cleanup complete. Server shutting down."))
    /\ mainPC' = "shutdown"
    /\ UNCHANGED <<mw, recvAt, now, proc, srvPC, stop, hist, ctx, wake, inShutdown,
                   shutdownErr, conns, nconns>>

\* cleanup() panics and main has no deferred recover: the runtime ends the
\* process with status 2.
cleanupPanicsUnrecovered ==
    /\ proc = "running"
    /\ mainPC = "cleanup"
    /\ mainPC' = "done"
    /\ proc' = "exit2"
    /\ conns' = Abandon(conns)
    /\ UNCHANGED <<mw, recvAt, now, srvPC, stop, hist, ctx, wake, inShutdown,
                   shutdownErr, nconns, log>>

\* cleanup() panics instead of returning: the deferred recover of main logs
\* the value with a goroutine dump, the deferred cancel runs and main returns.
\* The lines after the call of cleanup() are not executed.
cleanupPanics ==
    /\ proc = "running"
    /\ mainPC = "cleanup"
    /\ log' = Append(log, PanicLine("PANIC DURING SHUTDOWN", "cleanup failed"))
    /\ mainPC' = "done"
    /\ MainReturns
    /\ UNCHANGED <<mw, recvAt, now, srvPC, stop, hist, ctx, wake, inShutdown,
                   shutdownErr, nconns>>

\* server.Shutdown(ctx) called without waiting for cleanup() to return.
ShutdownDuringCleanup ==
    /\ proc = "running"
    /\ mainPC \in {"cleanup", "shutdown"}
    /\ inShutdown' = TRUE
    /\ mainPC' = "drain"
    /\ UNCHANGED <<mw, recvAt, now, proc, srvPC, stop, hist, ctx, wake, shutdownErr,
                   conns, nconns, log>>

\* server.Shutdown(ctx) is called: the server stops accepting.
Shutdown ==
    /\ proc = "running"
    /\ mainPC = "shutdown"
    /\ inShutdown' = TRUE
    /\ mainPC' = "drain"
    /\ UNCHANGED <<mw, recvAt, now, proc, srvPC, stop, hist, ctx, wake, shutdownErr,
                   conns, nconns, log>>

\* server.Shutdown finds every connection idle and returns nil: the last
\* line is logged and main returns.
ShutdownDrained ==
    /\ proc = "running"
    /\ mainPC = "drain"
    /\ Active = {}
    /\ shutdownErr' = "nil"
    /\ log' = Append(log, LogLine("Server exited gracefully."))
    /\ mainPC' = "done"
    /\ MainReturns
    /\ UNCHANGED <<mw, recvAt, now, srvPC, stop, hist, ctx, wake, inShutdown, nconns>>

\* The error of server.Shutdown logged with Printf instead of Fatalf: main
\* goes on to its last line and returns.
ShutdownDeadlineNotFatal ==
    /\ proc = "running"
    /\ mainPC = "drain"
    /\ Active # {}
    /\ now >= ctx.deadline
    /\ shutdownErr' = "deadline"
    /\ mainPC' = "done"
    /\ log' = log \o << LogLine("Server shutdown failed"),
                        LogLine("Server exited gracefully.") >>
    /\ MainReturns
    /\ UNCHANGED <<mw, recvAt, now, srvPC, stop, hist, ctx, wake, inShutdown, nconns>>

\* server.Shutdown still has active connections when ctx is done: it returns
\* ctx.Err() and main ends the process with logger.Fatalf.
ShutdownDeadline ==
    /\ proc = "running"
    /\ mainPC = "drain"
    /\ Active # {}
    /\ now >= ctx.deadline
    /\ shutdownErr' = "deadline"
    /\ mainPC' = "done"
    /\ Fatalf(FatalLine("Server shutdown failed", "context deadline exceeded"))
    /\ UNCHANGED <<mw, recvAt, now, srvPC, stop, hist, ctx, wake, inShutdown, nconns>>

\* ------------------------------------------------------------------ clock
\* A step of the main path.
MainStep == WaitStop \/ cleanup \/ Shutdown \/ ShutdownDrained \/ ShutdownDeadline

\* The main path has a step to take now: its receive, its sleep or its wait
\* in server.Shutdown is over.
MainRunnable == ENABLED MainStep

\* One unit of time passes.  The clock stops at MaxTime unless a timer of the
\* main path (the sleep, the deadline) is still to run out.
Tick ==
    /\ proc = "running"
    /\ ~MainRunnable
    /\ now < MaxTime \/ mainPC \in {"cleanup", "drain"}
    /\ now' = now + 1
    /\ UNCHANGED <<mw, recvAt, proc, mainPC, srvPC, stop, hist, ctx, wake, inShutdown,
                   shutdownErr, conns, nconns, log>>

\* time.Sleep lasts at least its duration: one more unit passes before
\* cleanup() goes on, up to MaxOverrun units.  The context of the shutdown
\* may expire meanwhile.
sleepOverruns ==
    /\ proc = "running"
    /\ mainPC = "cleanup"
    /\ now >= wake
    /\ now < wake + MaxOverrun
    /\ now' = now + 1
    /\ UNCHANGED <<mw, recvAt, proc, mainPC, srvPC, stop, hist, ctx, wake, inShutdown,
                   shutdownErr, conns, nconns, log>>

\* ---------------------------------------------------------- specifications
Next ==
    \/ \E sig \in Signals : Deliver(sig)
    \/ ServerStarted
    \/ Listen
    \/ Bind
    \/ ServeError
    \/ ServeClosed
    \/ \E path \in Paths : Accept(path)
    \/ \E i \in 1..MaxRequests : Serve(i)
    \/ WaitStop
    \/ cleanup
    \/ Shutdown
    \/ ShutdownDrained
    \/ ShutdownDeadline
    \/ Tick

\* The program as written: cleanup() only logs and sleeps.
Spec == Init /\ [][Next]_vars

\* The same with the scheduling the runtime gives: a step the main goroutine
\* can take is taken, and time passes.
FairSpec == Spec /\ WF_vars(MainStep) /\ WF_vars(Tick)

\* The program with a cleanup() that may fail, the case the deferred recover
\* of main is written for.
NextFault == Next \/ cleanupPanics

SpecFault == Init /\ [][NextFault]_vars

\* The program with a cleanup() whose sleep may last longer than its
\* duration, under the scheduling of FairSpec.
NextOverrun == Next \/ sleepOverruns

SpecOverrun ==
    Init /\ [][NextOverrun]_vars /\ WF_vars(MainStep) /\ WF_vars(Tick)

\* ------------------------------------------------- the middleware on its own
\* recoveryMiddleware takes any http.Handler.  The handler bodies it is given
\* here: every sequence of at most MaxOps operations, among them the bodies
\* of the two registered routes.
HandlerOps ==
    { OpFprintln("Hello, World!"), OpWrite("partial"), OpWriteHeader(404),
      OpPanic("Something went wrong!") }

RECURSIVE Bodies(_)
Bodies(n) ==
    IF n = 0 THEN { <<>> }
    ELSE Bodies(n - 1) \cup
         { Append(b, o) : b \in { c \in Bodies(n - 1) : Len(c) = n - 1 }, o \in HandlerOps }

InitMiddleware ==
    /\ InitServer
    /\ mwNext \in Bodies(MaxOps)
    /\ mwOut = <<>>

\* The handler recoveryMiddleware(mwNext) serves one request.
ServeWrapped ==
    /\ mwOut = <<>>
    /\ mwOut' = << recoveryMiddleware(mwNext, NewResponseWriter) >>
    /\ UNCHANGED <<now, proc, mainPC, srvPC, stop, hist, ctx, wake, inShutdown,
                   shutdownErr, conns, nconns, log, recvAt, mwNext>>

NextMiddleware == ServeWrapped

SpecMiddleware == InitMiddleware /\ [][NextMiddleware]_vars

\* ================================================================== claims
Conns == 1..MaxRequests

\* A line with this message has been logged.
Logged(msg) == \E k \in 1..Len(log) : log[k].msg = msg

\* A line written by logger.Fatalf has been logged.
FatalLogged == \E k \in 1..Len(log) : log[k].fatal

InternalServerError ==
    [status |-> StatusInternalServerError, body |-> << "Internal Server Error\n" >>]

HelloWorld == [status |-> StatusOK, body |-> << "Hello, World!\n" >>]

\* C1: whenever cleanup() has faulted, the fault is logged by the boundary of
\* main with a stack snapshot and the process does not end without
\* server.Shutdown having been called.
C1_DrainFollowsCleanupFault ==
    \A k \in 1..Len(log) :
        log[k].msg = "PANIC DURING SHUTDOWN" =>
            /\ log[k].stack
            /\ proc # "running" => inShutdown

\* C2: a served request for /panic had its handler invoked once, got exactly
\* the one response 500 "Internal Server Error\n", no panic reached the
\* server; no request ever has more than one response or one invocation; and
\* serving it leaves the process running, the serving goroutine where it was
\* and every other connection untouched.
C2_PanicRouteAnswered500Once ==
    /\ [](\A i \in Conns :
            conns[i].path = "/panic" =>
                /\ conns[i].calls <= 1
                /\ Len(conns[i].resps) <= 1
                /\ conns[i].st = "done" =>
                     /\ conns[i].calls = 1
                     /\ conns[i].resps = << InternalServerError >>
                     /\ ~conns[i].escaped)
    /\ [][\A i \in Conns :
            (conns[i].path = "/panic" /\ conns[i].st = "active" /\ conns'[i].st = "done") =>
                /\ proc' = "running"
                /\ srvPC' = srvPC
                /\ inShutdown' = inShutdown
                /\ \A j \in Conns \ {i} : conns'[j] = conns[j]]_vars

\* C2 witness: a /panic request was answered and a request accepted after it
\* was answered too.
C2_Witness ==
    \E i, j \in Conns :
        /\ i < j
        /\ conns[i].path = "/panic" /\ conns[i].st = "done"
        /\ conns[j].st = "done" /\ conns[j].resps # <<>>

Graceful == Logged("Server exited gracefully.")

\* The last line of the log is the fatal line with this message.
LastLineFatal(msg) ==
    /\ log # <<>>
    /\ log[Len(log)].fatal
    /\ log[Len(log)].msg = msg

\* C3 as stated: once main is through the shutdown, for a request that was
\* in flight when the signal was received: if it finished before the deadline
\* the process has exited gracefully; if it did not finish, the drain call
\* returned an error, a fatal line is logged, the exit is nonzero and
\* "Server exited gracefully." was never logged.
C3_AsStated ==
    \A i \in Conns :
        (mainPC = "done" /\ conns[i].atStop) =>
            /\ (conns[i].st = "done" /\ ~conns[i].late) =>
                  (proc = "exit0" /\ Graceful /\ ~FatalLogged)
            /\ conns[i].st = "abandoned" =>
                  /\ shutdownErr = "deadline"
                  /\ proc = "exit1"
                  /\ FatalLogged
                  /\ ~Graceful

\* C3, amended: the drain lets the requests in flight complete (none is cut
\* while the process runs); when the drain call returned nil no request was
\* abandoned and the process exited 0 with "Server exited gracefully." and no
\* fatal line; when it returned the deadline error the deadline had expired
\* with a request still in flight, which is abandoned, the fatal line is the
\* last line, the exit is nonzero and "Server exited gracefully." is never
\* logged; and when every request has finished before the deadline the
\* outcome is the graceful one.
C3_DrainOutcome ==
    /\ proc = "running" => \A i \in Conns : conns[i].st # "abandoned"
    /\ shutdownErr = "nil" =>
          /\ \A i \in Conns : conns[i].st # "abandoned"
          /\ proc = "exit0"
          /\ Graceful
          /\ ~FatalLogged
    /\ shutdownErr = "deadline" =>
          /\ \E i \in Conns : conns[i].st = "abandoned"
          /\ now >= ctx.deadline
          /\ proc = "exit1"
          /\ LastLineFatal("Server shutdown failed")
          /\ ~Graceful
    /\ (mainPC = "done" /\ \A i \in Conns : conns[i].st = "done" => ~conns[i].late) =>
          (shutdownErr = "deadline" <=> \E i \in Conns : conns[i].st = "abandoned")
    /\ (mainPC = "done" /\ \A i \in Conns : conns[i].st \in {"none", "done"} /\ ~conns[i].late) =>
          (shutdownErr = "nil" /\ proc = "exit0" /\ Graceful)

\* C3 witness: a request in flight at the signal was still in flight when the
\* drain call gave up at the deadline.
C3_Witness ==
    /\ shutdownErr = "deadline"
    /\ \E i \in Conns : conns[i].atStop /\ conns[i].st = "abandoned"

\* Main received the signal with no request in flight.
QuietStop == ctx.created /\ \A i \in Conns : ~conns[i].atStop

\* C4 as stated: a signal received while no request is in flight never ends
\* in a drain error.
C4_AsStated == QuietStop => shutdownErr # "deadline"

\* C4, amended: after a signal received while no request is in flight the
\* process ends; unless the serving path failed to bind, it ends no earlier
\* than the cleanup duration after the receipt; and unless the serving path
\* failed to bind or a request accepted during cleanup was still in flight
\* at the deadline, it ends with exit 0, no drain error and no fatal line.
C4_QuietShutdownExits ==
    /\ [](QuietStop /\ proc # "running" /\ ~Logged("Server error") =>
            /\ now >= recvAt + CleanupDuration
            /\ (\A i \in Conns : conns[i].st # "abandoned") =>
                  /\ proc = "exit0"
                  /\ shutdownErr = "nil"
                  /\ ~FatalLogged)
    /\ (QuietStop ~> proc # "running")

\* C4 witness: such a shutdown ended with exit 0 exactly the cleanup duration
\* after the receipt.
C4_Witness ==
    /\ QuietStop
    /\ proc = "exit0"
    /\ shutdownErr = "nil"
    /\ now = recvAt + CleanupDuration

\* The position of the first line with this message in the log (0: none).
LineOf(msg) ==
    IF Logged(msg) THEN CHOOSE k \in 1..Len(log) :
                            /\ log[k].msg = msg
                            /\ \A j \in 1..(k - 1) : log[j].msg # msg
    ELSE 0

\* C5: server.Shutdown is called only after cleanup() has returned (both of
\* its lines are logged, in order, in an earlier step), and "Server exited
\* gracefully." is written only once the call has returned, whatever the
\* serving path does in between.
C5_CleanupThenDrainThenExitLine ==
    /\ [](inShutdown =>
            /\ mainPC \in {"drain", "done"}
            /\ 0 < LineOf("Cleaning up resources (DB, caches, etc.)...")
            /\ LineOf("Cleaning up resources (DB, caches, etc.)...")
                 < LineOf("Cleanup complete. Server shutting down."))
    /\ [](Graceful =>
            /\ inShutdown
            /\ shutdownErr = "nil"
            /\ LineOf("Cleanup complete. Server shutting down.")
                 < LineOf("Server exited gracefully."))
    /\ [][(~inShutdown /\ inShutdown') =>
            (mainPC = "shutdown" /\ Logged("Cleanup complete. Server shutting down."))]_vars
    /\ [][(~Graceful /\ Graceful') => (inShutdown /\ mainPC = "drain")]_vars

\* C5 witness: a graceful exit of a server that has answered a request.
C5_Witness ==
    /\ Graceful
    /\ \E i \in Conns : conns[i].st = "done" /\ ~conns[i].atStop

\* C6: the shutdown has not begun in any way (main past its receive, the
\* shutdown line or a cleanup line logged, the context created, Shutdown
\* called) unless a SIGINT or a SIGTERM has been delivered.
C6_NoShutdownBeforeSignal ==
    (\/ mainPC # "wait"
     \/ ctx.created
     \/ inShutdown
     \/ reads > 0
     \/ Logged("Shutdown signal received. Cleaning up...")
     \/ Logged("Cleaning up resources (DB, caches, etc.)...")) => termSeen

\* C6 witness: the shutdown has begun while the serving goroutine has not
\* run yet, and a delivered signal was not relayed to `stop` (not registered,
\* or dropped on a full buffer).
C6_Witness ==
    /\ ctx.created
    /\ srvPC = "spawned"
    /\ nsig > writes

\* C7: the context expires ShutdownTimeout after main received the signal;
\* main is never inside the drain later than that; main is through the
\* shutdown by then; a drain that ends with connections still active ends
\* with the deadline error, at the deadline; and the drain always ends
\* (or the process is ended by the serving path).
C7_DrainWithinDeadline ==
    /\ [](ctx.created => ctx.deadline = recvAt + ShutdownTimeout)
    /\ []((mainPC = "drain" /\ proc = "running") => now <= recvAt + ShutdownTimeout)
    /\ [](mainPC = "done" => now <= recvAt + ShutdownTimeout)
    /\ [](shutdownErr = "deadline" => now = recvAt + ShutdownTimeout)
    /\ [][(mainPC = "drain" /\ mainPC' = "done" /\ Active # {}) =>
            /\ shutdownErr' = "deadline"
            /\ now >= ctx.deadline
            /\ \A i \in Active : conns'[i].st = "abandoned"]_vars
    /\ (mainPC = "drain" ~> (mainPC = "done" \/ proc # "running"))

\* C7 witness: the drain gave up exactly at the deadline with every accepted
\* request still in flight.
C7_Witness ==
    /\ shutdownErr = "deadline"
    /\ now = ctx.deadline
    /\ nconns = MaxRequests
    /\ \A i \in Conns : conns[i].st = "abandoned"

\* C8: the process ends abnormally only with the fatal line of a serve error
\* or of a drain error as its last line; a fatal line always ends it with 1;
\* a fault of cleanup() ends it with 0; the graceful line goes with exit 0;
\* and serving a request, faulting or not, never ends the process.
C8_AbnormalExitOnlyFatal ==
    /\ [](proc \in {"running", "exit0", "exit1"})
    /\ [](proc = "exit1" =>
            \/ LastLineFatal("Server error") /\ shutdownErr = "pending"
            \/ LastLineFatal("Server shutdown failed") /\ shutdownErr = "deadline")
    /\ [](FatalLogged => proc = "exit1")
    /\ []((Logged("PANIC DURING SHUTDOWN") /\ proc # "running") => proc = "exit0")
    /\ []((Graceful /\ proc # "running") => proc = "exit0")
    /\ [][\A i \in Conns :
            (conns[i].st = "active" /\ conns'[i].st = "done") => proc' = "running"]_vars

\* C8 witness: a faulting request was served and cleanup() faulted, and the
\* process ended with 0.
C8_Witness ==
    /\ proc = "exit0"
    /\ Logged("PANIC DURING SHUTDOWN")
    /\ Logged("PANIC RECOVERED")

\* What the handler given to the middleware does on its own.
Unwrapped == ServeHTTP(mwNext, NewResponseWriter)

\* C9: for any handler body, the handler returned by recoveryMiddleware
\* returns normally; when the body faults, exactly one line is logged, with
\* the fault value and a stack snapshot; the body is run once.
C9_WrapperNeverFaults ==
    mwOut # <<>> =>
        /\ ~mwOut[1].panicked
        /\ mwOut[1].calls = 1
        /\ Unwrapped.panicked =>
              mwOut[1].lines =
                 << [msg |-> "PANIC RECOVERED", val |-> Unwrapped.value,
                     stack |-> TRUE, fatal |-> FALSE] >>

\* C9 witness: the wrapper has served a body that faults after writing.
C9_Witness ==
    /\ mwOut # <<>>
    /\ Unwrapped.panicked
    /\ Unwrapped.w.status # 0

\* C10: the wrapped body of route / answers 200 "Hello, World!\n"; and for
\* any body that does not fault the wrapped handler leaves the writer exactly
\* as the body alone does, logs nothing and the client gets the same response.
C10_PassThrough ==
    mwOut # <<>> =>
        /\ mwNext = mux("/") => Delivered(mwOut[1]) = << HelloWorld >>
        /\ ~Unwrapped.panicked =>
              /\ mwOut[1].w = Unwrapped.w
              /\ mwOut[1].lines = <<>>
              /\ Delivered(mwOut[1]) = Delivered(Unwrapped)

\* C10 witness: the wrapper has served the body of route /.
C10_Witness ==
    /\ mwOut # <<>>
    /\ mwNext = mux("/")
    /\ mwOut[1].w = HelloWorld

\* The messages of the lines the main path has written, in order: the log
\* without the lines of the serving goroutine and of the request handlers.
RECURSIVE Messages(_)
Messages(lines) ==
    IF lines = <<>> THEN <<>> ELSE << Head(lines).msg >> \o Messages(Tail(lines))

MainLines ==
    LET ofMain(l) == l.msg \notin {"Server started on :8080", "PANIC RECOVERED",
                                   "Server error"}
    IN  Messages(SelectSeq(log, ofMain))

ShutdownLines ==
    << "Shutdown signal received. Cleaning up...",
       "Cleaning up resources (DB, caches, etc.)...",
       "Cleanup complete. Server shutting down.",
       "Server exited gracefully." >>

\* C11 as stated: once the process has ended after a received signal with no
\* request cut by the deadline, the main path has logged the four lines in
\* order, each once, and there is no fatal line.
C11_AsStated ==
    (/\ proc # "running"
     /\ ctx.created
     /\ \A i \in Conns : conns[i].st # "abandoned") =>
        (MainLines = ShutdownLines /\ ~FatalLogged)

\* C11, amended: the same provided the serving path did not fail to bind;
\* and as long as the drain has not failed, what the main path has logged is
\* a prefix of the four lines.
C11_ShutdownLogLines ==
    /\ (/\ proc # "running"
        /\ ctx.created
        /\ ~Logged("Server error")
        /\ \A i \in Conns : conns[i].st # "abandoned") =>
           (MainLines = ShutdownLines /\ ~FatalLogged)
    /\ ~Logged("Server shutdown failed") =>
           /\ Len(MainLines) <= Len(ShutdownLines)
           /\ MainLines = SubSeq(ShutdownLines, 1, Len(MainLines))

\* C11 witness: the four lines are logged after a shutdown during which a
\* request that was in flight at the signal finished and a faulting request
\* was answered.
C11_Witness ==
    /\ proc = "exit0"
    /\ MainLines = ShutdownLines
    /\ Logged("PANIC RECOVERED")
    /\ \E i \in Conns : conns[i].atStop /\ conns[i].st = "done"

\* The serve call has returned in this step.
ServeReturns == srvPC # "closed" /\ srvPC' = "closed"

\* The step writes the fatal "Server error" line and ends the process with 1.
ServeFatalStep ==
    /\ proc = "running"
    /\ proc' = "exit1"
    /\ Len(log') = Len(log) + 1
    /\ SubSeq(log', 1, Len(log)) = log
    /\ log'[Len(log')].fatal
    /\ log'[Len(log')].msg = "Server error"

\* C12: a serve call that returns with a bind failure logs the fatal
\* "Server error" line and ends the process with 1 in the same step, wherever
\* main is; after that line nothing is logged, main does not move (no cleanup
\* starts) and "Server exited gracefully." is not in the log; and a serve
\* call that returns because Shutdown was called changes neither the log nor
\* the process.
C12_ServeFailureIsFatal ==
    /\ [][ServeReturns =>
             \/ ServeFatalStep /\ srvPC = "bind" /\ mainPC' = mainPC
             \/ inShutdown /\ log' = log /\ proc' = proc]_vars
    /\ [][Logged("Server error") => log' = log /\ mainPC' = mainPC]_vars
    /\ [](Logged("Server error") =>
             /\ proc = "exit1"
             /\ LastLineFatal("Server error")
             /\ mainPC # "done"
             /\ ~Graceful)
    /\ [](srvPC = "closed" /\ ~Logged("Server error") => inShutdown)

\* C12 witness: the bind failed while main was in the drain, after the
\* cleanup; the process ended with 1 and the graceful line was not logged.
C12_Witness ==
    /\ proc = "exit1"
    /\ LastLineFatal("Server error")
    /\ mainPC = "drain"
    /\ Logged("Cleanup complete. Server shutting down.")
    /\ ~Graceful

\* The place of the process in the order Starting, Serving, Draining,
\* Cleanup, Stopped: main waits for the signal while the serving path starts
\* or serves; the receipt of the signal (Draining) and the entry into
\* cleanup() are one step; Stopped is the return of main.
Phase ==
    IF proc = "exit0" THEN 5
    ELSE IF mainPC = "wait" THEN (IF srvPC = "serving" THEN 2 ELSE 1)
    ELSE IF mainPC = "cleanup" THEN 3
    ELSE 4

\* C13: main returns (exit 0) only after server.Shutdown returned nil, and
\* the process never moves backwards in the order Starting, Serving,
\* Draining, Cleanup, Stopped.
C13_NormalExitOnlyAfterDrain ==
    /\ [](proc = "exit0" => (inShutdown /\ shutdownErr = "nil"))
    /\ [][Phase' >= Phase]_vars

\* How long cleanup() has taken when it returns, and what is left of the time
\* of the context then.
CleanupTook == now - recvAt

TimeLeft == IF ctx.deadline > now THEN ctx.deadline - now ELSE 0

C15_FaultSurfacedAs500 ==
    (mwOut # <<>> /\ Unwrapped.panicked) =>
        Delivered(mwOut[1]) = << InternalServerError >>

\* C16 as stated: once SIGINT or SIGTERM has been delivered, stop has been
\* written exactly once, and it is read at most once.
C16_AsStated == termSeen => (writes = 1 /\ reads <= 1)

\* C16, amended: stop holds at most one signal, the written ones not yet
\* read; it is written at the first delivery of SIGINT or SIGTERM, at most
\* once more after main has read it and never before a delivery; main reads
\* it at most once, while it waits, and does read it after a delivery unless
\* the process is ended first.
C16_ChannelWrittenAndRead ==
    /\ [](/\ Len(stop) <= 1
          /\ writes = reads + Len(stop)
          /\ reads <= 1
          /\ writes <= 2
          /\ writes = 2 => reads = 1
          /\ termSeen <=> writes >= 1)
    /\ [][reads' # reads => (mainPC = "wait" /\ mainPC' = "cleanup")]_vars
    /\ (termSeen ~> (reads = 1 \/ proc # "running"))

\* C16 witness: the process has ended gracefully with stop written twice and
\* read once: the second signal is still in the channel.
C16_Witness ==
    /\ proc = "exit0"
    /\ writes = 2
    /\ reads = 1
    /\ Len(stop) = 1

\* How many lines with this message have been logged.
CountLines(msg) == Cardinality({ k \in 1..Len(log) : log[k].msg = msg })

\* The position of main in its sequence.
MainRank ==
    CASE mainPC = "wait"     -> 0
      [] mainPC = "cleanup"  -> 1
      [] mainPC = "shutdown" -> 2
      [] mainPC = "drain"    -> 3
      [] mainPC = "done"     -> 4

\* C17: the receipt, the two lines of cleanup() and the graceful line are
\* each logged at most once; main only moves forward, one position at a time
\* or out of cleanup() and the drain; server.Shutdown is called only once,
\* after cleanup(); the context, the end of the sleep and the time of the
\* receipt never change once set; and the delivery of a signal changes
\* nothing but the channel: not the position of main, the context, the
\* sleep, the server, the connections, the log or the process.
C17_ShutdownRunsOnce ==
    /\ [](/\ CountLines("Shutdown signal received. Cleaning up...") <= 1
          /\ CountLines("Cleaning up resources (DB, caches, etc.)...") <= 1
          /\ CountLines("Cleanup complete. Server shutting down.") <= 1
          /\ CountLines("Server exited gracefully.") <= 1
          /\ reads <= 1)
    /\ [][MainRank' >= MainRank]_vars
    /\ [][(inShutdown' # inShutdown) =>
             (~inShutdown /\ mainPC = "shutdown" /\ mainPC' = "drain")]_vars
    /\ [][ctx.created => (ctx' = ctx /\ wake' = wake /\ recvAt' = recvAt)]_vars
    /\ [][nsig' # nsig =>
             UNCHANGED <<mainPC, srvPC, ctx, wake, recvAt, inShutdown, shutdownErr,
                         conns, nconns, log, proc, now, reads>>]_vars

\* C17 witness: two signals were written to the channel, main has gone
\* through the sequence once and the process ended gracefully exactly
\* CleanupDuration after the receipt of the first.
C17_Witness ==
    /\ proc = "exit0"
    /\ nsig = MaxSignals
    /\ writes = 2
    /\ now = recvAt + CleanupDuration
    /\ CountLines("Cleaning up resources (DB, caches, etc.)...") = 1
    /\ Graceful

\* C18: while main is in cleanup() or about to call server.Shutdown, a
\* serving server can accept a connection for either route (as long as the
\* bound on connections allows) and every active request can be served; a
\* request for /panic served after the receipt of the signal gets the one
\* response 500 and the process goes on; once server.Shutdown has been
\* called no connection can be accepted, and every connection was accepted
\* before that call by a serving server.
C18_ServingUntilDrain ==
    /\ []((/\ proc = "running"
           /\ srvPC = "serving"
           /\ mainPC \in {"cleanup", "shutdown"}
           /\ nconns < MaxRequests) =>
              \A path \in Paths : ENABLED Accept(path))
    /\ [](proc = "running" => \A i \in Active : ENABLED Serve(i))
    /\ [](inShutdown => \A path \in Paths : ~ENABLED Accept(path))
    /\ [][nconns' # nconns =>
             (~inShutdown /\ ~inShutdown' /\ srvPC = "serving"
                /\ mainPC \in {"wait", "cleanup", "shutdown"})]_vars
    /\ [][\A i \in Conns :
             (conns[i].st = "none" /\ conns'[i].st # "none") =>
                (nconns' = nconns + 1 /\ ~inShutdown)]_vars
    /\ [][\A i \in Conns :
             (/\ ctx.created
              /\ conns[i].st = "active" /\ conns'[i].st = "done"
              /\ conns[i].path = "/panic") =>
                /\ conns'[i].resps = << InternalServerError >>
                /\ ~conns'[i].escaped
                /\ proc' = "running"
                /\ srvPC' = srvPC]_vars

\* C18 witness: main is still in cleanup(); the only connection so far was
\* not there when the signal was received, asked for /panic and has been
\* answered 500, the recovered panic being the last line logged.
C18_Witness ==
    /\ proc = "running"
    /\ mainPC = "cleanup"
    /\ ~inShutdown
    /\ nconns = 1
    /\ conns[1].path = "/panic"
    /\ conns[1].st = "done"
    /\ ~conns[1].atStop
    /\ conns[1].resps = << InternalServerError >>
    /\ Len(log) >= 3
    /\ log[Len(log)].msg = "PANIC RECOVERED"
    /\ log[Len(log) - 1].msg = "Cleaning up resources (DB, caches, etc.)..."

\* server.Shutdown was called and the serving goroutine has not called
\* ListenAndServe yet.
DrainBeforeListen == inShutdown /\ srvPC \in {"spawned", "listen"}

\* C19: a delivered SIGINT or SIGTERM is in the channel or has been received
\* by main, wherever the serving goroutine is, and main does receive it
\* unless the process is ended first; when server.Shutdown was called before
\* ListenAndServe, the call of ListenAndServe returns without a log line,
\* the process going on; no connection was accepted and no fatal line is
\* logged; and the process ends, with exit 0, the drain having returned nil
\* and "Server exited gracefully." logged.
C19_SignalKeptAndLateServe ==
    /\ [](termSeen => (stop # <<>> \/ ctx.created))
    /\ (termSeen ~> (ctx.created \/ proc # "running"))
    /\ [][(DrainBeforeListen /\ srvPC = "listen" /\ srvPC' # "listen") =>
             (srvPC' = "closed" /\ log' = log /\ proc' = proc)]_vars
    /\ [](DrainBeforeListen =>
             /\ nconns = 0
             /\ ~FatalLogged
             /\ proc # "running" =>
                   (proc = "exit0" /\ shutdownErr = "nil" /\ Graceful))
    /\ (DrainBeforeListen ~> (proc = "exit0" /\ Graceful /\ ~FatalLogged))

\* C19 witness: the signal was delivered and server.Shutdown called before
\* the goroutine called ListenAndServe, and the process has ended gracefully.
C19_Witness ==
    /\ DrainBeforeListen
    /\ srvPC = "listen"
    /\ proc = "exit0"
    /\ Graceful
    /\ ~FatalLogged
    /\ now = recvAt + CleanupDuration

====
